---- MODULE Spec2Model ----
(***************************************************************************)
(* A model of build_skia_bundle.py: the single-pass pipeline that fetches  *)
(* one archive per platform, extracts the release subdirectory into a      *)
(* staging area, copies the headers and the libraries into the artifact    *)
(* bundle and writes info.json.                                            *)
(*                                                                         *)
(* Python strings are tuples of one-character strings, so that prefix      *)
(* tests, slicing, lower-casing and ordering are computed, not assumed.    *)
(* A path inside a directory is the tuple of its components, as pathlib    *)
(* keeps it.                                                               *)
(***************************************************************************)
EXTENDS FiniteSets, Integers, Sequences, TLC

----------------------------------------------------------------------------
(* Strings *)

\* The characters the model's names use, in code-point order.
CodePoints == <<"-",".","/","0","1","2","3","4","5","6","7","8","9","A","B","C","D","E","F","G","H","I","J","K","L","M","N","O","P","Q","R","S","T","U","V","W","X","Y","Z","_","a","b","c","d","e","f","g","h","i","j","k","l","m","n","o","p","q","r","s","t","u","v","w","x","y","z">>

UpperCase == <<"A","B","C","D","E","F","G","H","I","J","K","L","M","N","O","P","Q","R","S","T","U","V","W","X","Y","Z">>

LowerCase == <<"a","b","c","d","e","f","g","h","i","j","k","l","m","n","o","p","q","r","s","t","u","v","w","x","y","z">>

IndexIn(seq, c) == CHOOSE i \in 1..Len(seq) : seq[i] = c

Ord(c) == IndexIn(CodePoints, c)

\* str.lower() on one character
LowerChar(c) ==
    IF \E i \in 1..Len(UpperCase) : UpperCase[i] = c
    THEN LowerCase[IndexIn(UpperCase, c)]
    ELSE c

\* str.lower()
Lower(s) == [i \in 1..Len(s) |-> LowerChar(s[i])]

\* str.startswith(prefix)
StartsWith(s, prefix) ==
    /\ Len(s) >= Len(prefix)
    /\ SubSeq(s, 1, Len(prefix)) = prefix

\* str.endswith(suffix), which is what fnmatch does for the pattern "*" + suffix
EndsWith(s, suffix) ==
    /\ Len(s) >= Len(suffix)
    /\ SubSeq(s, Len(s) - Len(suffix) + 1, Len(s)) = suffix

\* s[n:]
DropFirst(s, n) == SubSeq(s, n + 1, Len(s))

\* str.lstrip('/')
RECURSIVE LStripSlash(_)
LStripSlash(s) ==
    IF s # << >> /\ Head(s) = "/" THEN LStripSlash(Tail(s)) ELSE s

\* str.rfind(c), 1-based; 0 when c does not occur
RECURSIVE RFind(_, _)
RFind(s, c) ==
    IF s = << >> THEN 0
    ELSE IF s[Len(s)] = c THEN Len(s)
    ELSE RFind(SubSeq(s, 1, Len(s) - 1), c)

\* PurePath.suffix of a file name
PathSuffix(name) ==
    LET i == RFind(name, ".")
    IN  IF 1 < i /\ i < Len(name) THEN SubSeq(name, i, Len(name)) ELSE << >>

\* PurePath.stem of a file name
PathStem(name) ==
    LET i == RFind(name, ".")
    IN  IF 1 < i /\ i < Len(name) THEN SubSeq(name, 1, i - 1) ELSE name

\* The components of a relative path, as pathlib parses it: split at "/",
\* empty components dropped.
RECURSIVE SplitPath(_, _, _)
SplitPath(s, cur, acc) ==
    IF s = << >> THEN (IF cur = << >> THEN acc ELSE Append(acc, cur))
    ELSE IF Head(s) = "/"
         THEN SplitPath(Tail(s), << >>, IF cur = << >> THEN acc ELSE Append(acc, cur))
         ELSE SplitPath(Tail(s), Append(cur, Head(s)), acc)

Parts(s) == SplitPath(s, << >>, << >>)

\* The order of Python's str comparison: by code point, a proper prefix first.
RECURSIVE StrLess(_, _)
StrLess(a, b) ==
    IF b = << >> THEN FALSE
    ELSE IF a = << >> THEN TRUE
    ELSE IF Head(a) = Head(b) THEN StrLess(Tail(a), Tail(b))
    ELSE Ord(Head(a)) < Ord(Head(b))

\* Mutant of Sorted: sorted(all_lib_names, key=str.lower).
RECURSIVE SortedIgnoringCase(_)
SortedIgnoringCase(names) ==
    IF names = {} THEN << >>
    ELSE LET least == CHOOSE x \in names : \A y \in names \ {x} :
                          \/ StrLess(Lower(x), Lower(y))
                          \/ Lower(x) = Lower(y) /\ StrLess(x, y)
         IN  <<least>> \o SortedIgnoringCase(names \ {least})

\* sorted(names): the names in increasing order
RECURSIVE Sorted(_)
Sorted(names) ==
    IF names = {} THEN << >>
    ELSE LET least == CHOOSE x \in names : \A y \in names \ {x} : StrLess(x, y)
         IN  <<least>> \o Sorted(names \ {least})

\* The proper and improper prefixes of a component tuple: a directory and
\* all its ancestors, down to the root << >>.
Prefixes(path) == {SubSeq(path, 1, n) : n \in 0..Len(path)}

\* All orders in which a finite set can be enumerated.
RECURSIVE Enumerations(_)
Enumerations(set) ==
    IF set = {} THEN {<< >>}
    ELSE UNION {{<<x>> \o rest : rest \in Enumerations(set \ {x})} : x \in set}

Range(seq) == {seq[i] : i \in 1..Len(seq)}

----------------------------------------------------------------------------
(* get_download_info: the platform catalog *)

Catalog == <<
    [name |-> <<"m","a","c","o","s","-","u","n","i","v","e","r","s","a","l">>, os |-> <<"m","a","c","o","s">>, arch |-> <<"a","r","m","6","4">>,
     triple |-> <<"x86_64-apple-macosx", "arm64-apple-macosx">>],
    [name |-> <<"l","i","n","u","x","-","x","6","4">>, os |-> <<"l","i","n","u","x">>, arch |-> <<"x","6","4">>,
     triple |-> <<"x86_64-unknown-linux-gnu">>],
    [name |-> <<"l","i","n","u","x","-","a","a","r","c","h","6","4">>, os |-> <<"l","i","n","u","x">>, arch |-> <<"a","r","m","6","4">>,
     triple |-> <<"aarch64-unknown-linux-gnu">>],
    [name |-> <<"w","i","n","d","o","w","s","-","x","6","4">>, os |-> <<"w","i","n","d","o","w","s">>, arch |-> <<"x","6","4">>,
     triple |-> <<"x86_64-unknown-windows-msvc">>] >>

PlatformNames == {Catalog[i].name : i \in 1..Len(Catalog)}

CatalogIndex(platform) == CHOOSE i \in 1..Len(Catalog) : Catalog[i].name = platform

\* download_info[platform]["extract_path"]
ExtractPath(platform) ==
    LET info == Catalog[CatalogIndex(platform)]
    IN  <<"o","u","t","/","R","e","l","e","a","s","e","-">> \o info.os \o <<"-">> \o info.arch

\* download_info[platform]["triple"]
Triple(platform) == Catalog[CatalogIndex(platform)].triple

\* platform.startswith("windows")
IsWindows(platform) == StartsWith(platform, <<"w","i","n","d","o","w","s">>)

----------------------------------------------------------------------------
(* download_and_extract *)

\* A directory tree: the set of its files and the set of its directories,
\* each a component tuple relative to the tree's root. The root itself
\* exists when << >> is among the directories.
NoTree == [files |-> {}, dirs |-> {}]

\* target_path.parent.mkdir(parents=True, exist_ok=True) raises when an
\* ancestor of the target is a regular file.
MkdirFails(tree, parent) == \E d \in Prefixes(parent) : d \in tree.files

\* open(target_path, 'wb') raises when the target is a directory.
OpenFails(dirs, target) == target \in dirs

\* One archive member that passed the prefix test and the emptiness test:
\* the result tree and whether the with-block completed.
ExtractMember(tree, relative_path, readable) ==
    LET target == Parts(relative_path)
        parent == SubSeq(target, 1, Len(target) - 1)
        dirs   == tree.dirs \cup Prefixes(parent)
    IN  IF MkdirFails(tree, parent)
        THEN [tree |-> tree, ok |-> FALSE]
        ELSE IF ~readable \/ OpenFails(dirs, target)
        THEN [tree |-> [tree EXCEPT !.dirs = dirs], ok |-> FALSE]
        ELSE [tree |-> [files |-> tree.files \cup {target}, dirs |-> dirs],
              ok |-> TRUE]

\* if member.startswith(extract_path)
MemberSelected(member, extract_path) == StartsWith(member, extract_path)

\* member[len(extract_path):].lstrip('/')
RelativePath(member, extract_path) ==
    LStripSlash(DropFirst(member, Len(extract_path)))

\* The loop over zip_ref.namelist() from member k on; an exception leaves
\* what was written so far and ends the loop with ok = FALSE.
RECURSIVE ExtractFrom(_, _, _, _, _)
ExtractFrom(tree, members, k, extract_path, corrupt) ==
    IF k > Len(members) THEN [tree |-> tree, ok |-> TRUE]
    ELSE LET member == members[k]
             rel    == RelativePath(member, extract_path)
         IN  IF MemberSelected(member, extract_path) /\ rel # << >>
             THEN LET r == ExtractMember(tree, rel, k # corrupt)
                  IN  IF r.ok
                      THEN ExtractFrom(r.tree, members, k + 1, extract_path, corrupt)
                      ELSE r
             ELSE ExtractFrom(tree, members, k + 1, extract_path, corrupt)

\* What a URL serves: nothing (urlretrieve raises), a file that is no ZIP
\* archive (ZipFile raises), or an archive: its member names in archive
\* order and the index of a member whose data cannot be read (0: none).
Unavailable == [kind |-> "unavailable"]

NotAZip == [kind |-> "notzip"]

Archive(members, corrupt) ==
    [kind |-> "zip", members |-> members, corrupt |-> corrupt]

\* download_and_extract(url, temp_dir, platform, extract_path): the staging
\* tree afterwards, and whether a directory (rather than None) is returned.
DownloadAndExtract(served, tree, platform) ==
    IF served.kind # "zip" THEN [tree |-> tree, ok |-> FALSE]
    ELSE ExtractFrom(tree, served.members, 1, ExtractPath(platform), served.corrupt)

----------------------------------------------------------------------------
(* copy_libraries *)

Last(path) == path[Len(path)]

Parent(path) == SubSeq(path, 1, Len(path) - 1)

\* source_dir.exists()
SourceDirExists(tree) == << >> \in tree.dirs

\* source_dir.rglob("*.lib") or source_dir.rglob("*.a"): every file and
\* every directory below the root whose name matches.
LibFiles(tree, platform) ==
    LET ext == IF IsWindows(platform) THEN <<".","l","i","b">> ELSE <<".","a">>
    IN  {p \in (tree.files \cup tree.dirs) \ {<< >>} : EndsWith(Last(p), ext)}

Under(dir, path) == dir \in Prefixes(Parent(path))

\* The orders in which rglob can yield a set of paths: a directory's own
\* matches come before those of its subdirectories, every subtree is
\* yielded as one block, and the order inside a directory is the file
\* system's.
ScanOrders(paths) ==
    {e \in Enumerations(paths) :
        \A i, j \in 1..Len(e) : i < j =>
            /\ ~(Parent(e[j]) # Parent(e[i]) /\ Under(Parent(e[j]), e[i]))
            /\ \A k \in 1..Len(e) : j < k =>
                \A d \in Prefixes(Parent(e[i])) :
                    Under(d, e[k]) => Under(d, e[j])}

\* Mutant of TargetStem: original_stem.startswith("lib"), without lower().
TargetStemCaseSensitive(platform, original_stem) ==
    IF IsWindows(platform) /\ StartsWith(original_stem, <<"l","i","b">>)
    THEN DropFirst(original_stem, 3)
    ELSE original_stem

\* target_stem of a source file
TargetStem(platform, original_stem) ==
    IF IsWindows(platform) /\ StartsWith(Lower(original_stem), <<"l","i","b">>)
    THEN DropFirst(original_stem, 3)
    ELSE original_stem

\* target_name of a source file
TargetName(platform, name) ==
    IF IsWindows(platform)
    THEN TargetStem(platform, PathStem(name)) \o PathSuffix(name)
    ELSE name

\* display_name of a target stem
DisplayName(target_stem) ==
    IF StartsWith(target_stem, <<"l","i","b">>) THEN DropFirst(target_stem, 3)
    ELSE target_stem

\* Mutant of IsMain: display_name == "skia", without lower().
IsMainExact(display_name) == display_name = <<"s","k","i","a">>

\* "is_main": display_name.lower() == "skia"
IsMain(display_name) == Lower(display_name) = <<"s","k","i","a">>

\* if source_lib.name in ["icudtl.dat"]: continue
Skipped(name) == name \in {<<"i","c","u","d","t","l",".","d","a","t">>}

\* The dictionary appended to platform_libraries for one source file.
LibraryEntry(platform, name) ==
    LET target_stem  == TargetStem(platform, PathStem(name))
        display_name == DisplayName(target_stem)
    IN  [file_name |-> TargetName(platform, name),
         lib_name  |-> display_name,
         is_main   |-> IsMain(display_name)]

\* shutil.copy2(source_lib, target_lib) raises for a directory source, and
\* when the file system refuses the write.
CopyFails(tree, source_lib, refused) == source_lib \in tree.dirs \/ refused

\* The loop over lib_files from position k on: the entries appended and the
\* copies made, and whether the loop ran to its end. An exception of copy2
\* is not caught, so it ends the loop (and the run).
RECURSIVE CopyFrom(_, _, _, _, _, _)
CopyFrom(tree, platform, lib_files, k, refuse_at, acc) ==
    IF k > Len(lib_files) THEN [acc EXCEPT !.ok = TRUE]
    ELSE LET source_lib == lib_files[k]
             name       == Last(source_lib)
         IN  IF Skipped(name)
             THEN CopyFrom(tree, platform, lib_files, k + 1, refuse_at, acc)
             ELSE IF CopyFails(tree, source_lib, k = refuse_at)
             THEN [acc EXCEPT !.ok = FALSE]
             ELSE CopyFrom(tree, platform, lib_files, k + 1, refuse_at,
                      [acc EXCEPT
                          !.entries = Append(@, LibraryEntry(platform, name)),
                          !.copies  = Append(@, [platform |-> platform,
                                                  source   |-> source_lib,
                                                  target   |-> TargetName(platform, name)])])

\* The body of copy_libraries' loop for one platform with a staging tree.
CopyPlatform(tree, platform, lib_files, refuse_at) ==
    CopyFrom(tree, platform, lib_files, 1, refuse_at,
             [entries |-> << >>, copies |-> << >>, ok |-> TRUE])

----------------------------------------------------------------------------
(* create_info_json *)

Version == "m126-6bfb13368b"

\* all_lib_names
AllLibNames(all_libraries) ==
    UNION {{all_libraries[i].libs[j].lib_name : j \in 1..Len(all_libraries[i].libs)} :
              i \in 1..Len(all_libraries)}

NoLib == [file_name |-> << >>, lib_name |-> << >>, is_main |-> FALSE, none |-> TRUE]

\* lib_info: the first entry of the platform with this lib_name, or None
FindLib(platform_libs, lib_name) ==
    LET hits == {j \in 1..Len(platform_libs) : platform_libs[j].lib_name = lib_name}
    IN  IF hits = {} THEN NoLib
        ELSE platform_libs[CHOOSE j \in hits : \A h \in hits : j <= h]

\* Mutant of Variant: the path built from lib_name instead of file_name.
VariantOfLibName(platform, lib_info) ==
    [platform |-> platform,
     path |-> platform \o <<"/">> \o lib_info.lib_name,
     supportedTriples |-> Triple(platform),
     staticLibraryMetadata |-> lib_info.is_main]

\* The variant dictionary of one platform's entry.
Variant(platform, lib_info) ==
    [platform |-> platform,
     path |-> platform \o <<"/">> \o lib_info.file_name,
     supportedTriples |-> Triple(platform),
     staticLibraryMetadata |-> lib_info.is_main]

\* variants of one lib_name, over all_libraries.items() from position i on
RECURSIVE Variants(_, _, _)
Variants(all_libraries, lib_name, i) ==
    IF i > Len(all_libraries) THEN << >>
    ELSE LET lib_info == FindLib(all_libraries[i].libs, lib_name)
             rest     == Variants(all_libraries, lib_name, i + 1)
         IN  IF "none" \in DOMAIN lib_info THEN rest
             ELSE <<Variant(all_libraries[i].platform, lib_info)>> \o rest

\* artifacts, as the ordered list of its (key, value) pairs
RECURSIVE Artifacts(_, _, _)
Artifacts(all_libraries, names, n) ==
    IF n > Len(names) THEN << >>
    ELSE LET variants == Variants(all_libraries, names[n], 1)
             rest     == Artifacts(all_libraries, names, n + 1)
         IN  IF variants = << >> THEN rest
             ELSE <<[name |-> names[n], version |-> Version,
                     type |-> "staticLibrary", variants |-> variants]>> \o rest

\* The "artifacts" object create_info_json dumps.
InfoJson(all_libraries) ==
    Artifacts(all_libraries, Sorted(AllLibNames(all_libraries)), 1)

----------------------------------------------------------------------------
(* create_umbrella_header *)

Include == <<<<"i","n","c","l","u","d","e">>>>

\* The directories of temp_dir whose "include" exists: each can be the
\* first one temp_dir.iterdir() yields with that property.
HeaderSources(temp) ==
    {p \in DOMAIN temp :
        /\ << >> \in temp[p].dirs
        /\ Include \in temp[p].dirs \cup temp[p].files}

\* shutil.copytree(source_include_dir, ...) raises when the source is a
\* regular file.
CopytreeFails(tree) == Include \in tree.files

----------------------------------------------------------------------------
(* main: the state of one run *)

VARIABLES
    pc,                   \* the position in main
    idx,                  \* the position of the loop the run is in
    env,                  \* what the URLs serve, and what an earlier run left in temp/ and in the bundle
    temp,                 \* temp_dir: the staging tree of each platform
    extracted_platforms,  \* its keys, in insertion order
    written,              \* the bundle files this run wrote or copied
    headers_from,         \* the staging directory the headers were copied from
    umbrella,             \* which include/skia.h was written
    all_libraries,        \* its items, in insertion order
    copy_log,             \* the copy2 calls that succeeded, in order
    info,                 \* info.json: whether this run wrote it, and its artifacts
    crash_in              \* the function an uncaught exception came from

vars == <<pc, idx, env, temp, extracted_platforms, written, headers_from,
          umbrella, all_libraries, copy_log, info, crash_in>>

NoPlatform == << >>

ModuleMapFile == <<<<"m","o","d","u","l","e",".","m","o","d","u","l","e","m","a","p">>>>

UmbrellaFile == <<<<"i","n","c","l","u","d","e">>, <<"s","k","i","a",".","h">>>>

InfoFile == <<<<"i","n","f","o",".","j","s","o","n">>>>

----------------------------------------------------------------------------
(* The inputs of a run *)

\* Bounds of the inputs.
MaxLeftover == 1

MaxMembers == 3

MaxLibs == 2

\* The tree that holds exactly these files.
TreeOf(files) ==
    [files |-> files, dirs |-> UNION {Prefixes(Parent(f)) : f \in files}]

RECURSIVE Pick(_, _, _)
Pick(seq, indices, k) ==
    IF k > Len(seq) THEN << >>
    ELSE (IF k \in indices THEN <<seq[k]>> ELSE << >>) \o Pick(seq, indices, k + 1)

\* The subsequences of seq of at most n elements.
SubSeqs(seq, n) ==
    {Pick(seq, I, 1) : I \in {J \in SUBSET (1..Len(seq)) : Cardinality(J) <= n}}

Slash(a, b) == a \o <<"/">> \o b

MainLib(platform) == IF IsWindows(platform) THEN <<"s","k","i","a",".","l","i","b">> ELSE <<"l","i","b","s","k","i","a",".","a">>

Header == <<"i","n","c","l","u","d","e","/","c","o","r","e","/","S","k","T","y","p","e","s",".","h">>

\* A release archive as the catalog expects it.
GoodMembers(platform) ==
    <<Slash(ExtractPath(platform), Header),
      Slash(ExtractPath(platform), MainLib(platform))>>

\* What an earlier run of the tool left in a platform's staging directory.
LeftoverTree == TreeOf({Parts(Header), <<<<"l","i","b","s","k","i","a",".","a">>>>})

\* What an earlier run left in the output directory.
StaleBundle == {ModuleMapFile, UmbrellaFile, InfoFile, <<<<"l","i","n","u","x","-","x","6","4">>, <<"l","i","b","o","l","d",".","a">>>>}

\* Archive entries of every shape: directory markers, nested files, an
\* entry of a sibling directory whose name starts like the extract path,
\* an entry outside it.
ShapeCandidates(platform) ==
    LET E == ExtractPath(platform)
    IN  <<E \o <<"/">>,
          Slash(E, MainLib(platform)),
          Slash(E, <<"t","h","i","r","d","_","p","a","r","t","y","/">>),
          Slash(E, <<"t","h","i","r","d","_","p","a","r","t","y","/","l","i","b","f","o","o",".","a">>),
          Slash(E, Header),
          Slash(E, <<"i","n","c","l","u","d","e","/">>),
          E \o <<"-","e","x","t","r","a","/","l","i","b","b","a","r",".","a">>,
          <<"R","E","A","D","M","E",".","m","d">>>>

\* Library files of every naming shape.
LibCandidates(platform) ==
    LET E == ExtractPath(platform)
    IN  IF IsWindows(platform)
        THEN <<Slash(E, <<"s","k","i","a",".","l","i","b">>),
               Slash(E, <<"l","i","b","s","k","i","a",".","l","i","b">>),
               Slash(E, <<"L","I","B","f","o","o",".","l","i","b">>),
               Slash(E, <<"l","i","b","l","i","b","f","o","o",".","l","i","b">>),
               Slash(E, <<"i","c","u","d","t","l",".","d","a","t">>)>>
        ELSE <<Slash(E, <<"l","i","b","s","k","i","a",".","a">>),
               Slash(E, <<"s","k","i","a",".","a">>),
               Slash(E, <<"l","i","b","S","k","i","a",".","a">>),
               Slash(E, <<"t","h","i","r","d","_","p","a","r","t","y","/","l","i","b","s","k","i","a",".","a">>),
               Slash(E, <<"l","i","b","f","o","o",".","a">>),
               Slash(E, <<"o","b","j","s",".","a","/","x",".","o">>),
               Slash(E, <<"i","c","u","d","t","l",".","d","a","t">>)>>

\* Every platform is unavailable, served whole, or served with an
\* unreadable second member; up to MaxLeftover staging directories are left
\* over from an earlier run.
FetchOutcomeInputs ==
    {[served |-> served, temp |-> [p \in PlatformNames |-> IF p \in L THEN LeftoverTree ELSE NoTree],
      bundle |-> {}] :
        served \in [PlatformNames -> {"unavailable", "good", "truncated"}],
        L \in {M \in SUBSET PlatformNames : Cardinality(M) <= MaxLeftover}}

ServedOf(platform, outcome) ==
    CASE outcome = "unavailable" -> Unavailable
      [] outcome = "good"        -> Archive(GoodMembers(platform), 0)
      [] outcome = "truncated"   -> Archive(GoodMembers(platform), 2)

\* One platform serves an archive of up to MaxMembers entries of any shape
\* (or no archive at all), the others serve nothing.
ArchiveShapeInputs ==
    UNION {{[served |-> [p \in PlatformNames |-> IF p = p0 THEN a ELSE Unavailable],
             temp |-> [p \in PlatformNames |-> NoTree],
             bundle |-> {}] :
                a \in {NotAZip} \cup {Archive(m, 0) : m \in SubSeqs(ShapeCandidates(p0), MaxMembers)}} :
           p0 \in PlatformNames}

\* The rich platforms serve up to MaxLibs library files of any naming
\* shape, macos-universal serves a release archive or nothing, and the
\* output directory is empty or holds an earlier run's output.
LibrarySetInputs ==
    {[served |-> [p \in PlatformNames |->
                    IF p = <<"l","i","n","u","x","-","x","6","4">> THEN Archive(lx, 0)
                    ELSE IF p = <<"w","i","n","d","o","w","s","-","x","6","4">> THEN Archive(win, 0)
                    ELSE IF p = <<"m","a","c","o","s","-","u","n","i","v","e","r","s","a","l">> /\ mac THEN Archive(GoodMembers(p), 0)
                    ELSE Unavailable],
      temp |-> [p \in PlatformNames |-> NoTree],
      bundle |-> b] :
        lx \in SubSeqs(LibCandidates(<<"l","i","n","u","x","-","x","6","4">>), MaxLibs),
        win \in SubSeqs(LibCandidates(<<"w","i","n","d","o","w","s","-","x","6","4">>), MaxLibs),
        mac \in BOOLEAN,
        b \in {{}, StaleBundle}}

Inputs ==
    {[e EXCEPT !.served = [p \in PlatformNames |-> ServedOf(p, e.served[p])]] :
        e \in FetchOutcomeInputs}
    \cup ArchiveShapeInputs \cup LibrarySetInputs

----------------------------------------------------------------------------
(* main *)

Init ==
    /\ env \in Inputs
    /\ temp = env.temp
    /\ pc = "fetch"
    /\ idx = 1
    /\ extracted_platforms = << >>
    /\ written = {}
    /\ headers_from = NoPlatform
    /\ umbrella = "none"
    /\ all_libraries = << >>
    /\ copy_log = << >>
    /\ info = [written |-> FALSE, artifacts |-> << >>]
    /\ crash_in = "none"

\* One iteration of the download loop.
Fetch ==
    /\ pc = "fetch"
    /\ LET platform == Catalog[idx].name
           r == DownloadAndExtract(env.served[platform], temp[platform], platform)
       IN  /\ temp' = [temp EXCEPT ![platform] = r.tree]
           /\ extracted_platforms' =
                IF r.ok THEN Append(extracted_platforms, platform)
                ELSE extracted_platforms
    /\ IF idx < Len(Catalog)
       THEN idx' = idx + 1 /\ pc' = "fetch"
       ELSE idx' = 1 /\ pc' = "check"
    /\ UNCHANGED <<env, written, headers_from, umbrella, all_libraries,
                   copy_log, info, crash_in>>

\* Mutant of NoPlatformsExtracted: "if not download_info", the catalog
\* instead of the platforms that were extracted.
NoPlatformsInCatalog(platforms) == Len(Catalog) = 0

\* if not extracted_platforms
NoPlatformsExtracted(platforms) == platforms = << >>

\* sys.exit(1)
ExitNoPlatforms ==
    /\ pc = "check"
    /\ NoPlatformsExtracted(extracted_platforms)
    /\ pc' = "exit1"
    /\ UNCHANGED <<idx, env, temp, extracted_platforms, written, headers_from,
                   umbrella, all_libraries, copy_log, info, crash_in>>

CreateModuleMap ==
    /\ pc = "check"
    /\ ~NoPlatformsExtracted(extracted_platforms)
    /\ written' = written \cup {ModuleMapFile}
    /\ pc' = "headers"
    /\ UNCHANGED <<idx, env, temp, extracted_platforms, headers_from,
                   umbrella, all_libraries, copy_log, info, crash_in>>

\* The files copytree writes below the bundle's include directory.
CopiedHeaders(tree) == {f \in tree.files : Include \in Prefixes(Parent(f))}

CreateUmbrellaHeader ==
    /\ pc = "headers"
    /\ IF HeaderSources(temp) = {}
       THEN /\ headers_from' = NoPlatform
            /\ umbrella' = "minimal"
            /\ written' = written \cup {UmbrellaFile}
            /\ pc' = "copy"
            /\ crash_in' = crash_in
       ELSE \E platform \in HeaderSources(temp) :
                IF CopytreeFails(temp[platform])
                THEN /\ pc' = "crashed"
                     /\ crash_in' = "create_umbrella_header"
                     /\ UNCHANGED <<headers_from, umbrella, written>>
                ELSE /\ headers_from' = platform
                     /\ umbrella' = "full"
                     /\ written' = written \cup CopiedHeaders(temp[platform])
                                           \cup {UmbrellaFile}
                     /\ pc' = "copy"
                     /\ crash_in' = crash_in
    /\ UNCHANGED <<idx, env, temp, extracted_platforms, all_libraries,
                   copy_log, info>>

\* One iteration of copy_libraries' loop over the extracted platforms.
CopyLibraries ==
    /\ pc = "copy"
    /\ idx <= Len(extracted_platforms)
    /\ LET platform == extracted_platforms[idx]
           tree     == temp[platform]
           advance  == IF idx < Len(extracted_platforms)
                       THEN idx' = idx + 1 /\ pc' = "copy"
                       ELSE idx' = 1 /\ pc' = "info"
       IN  IF ~SourceDirExists(tree)
           THEN /\ advance
                /\ UNCHANGED <<written, all_libraries, copy_log, crash_in>>
           ELSE \E lib_files \in ScanOrders(LibFiles(tree, platform)) :
                \E refuse_at \in 0..Len(lib_files) :
                    LET r == CopyPlatform(tree, platform, lib_files, refuse_at)
                    IN  /\ copy_log' = copy_log \o r.copies
                        /\ written' = written \cup
                              {<<platform, r.copies[i].target>> : i \in 1..Len(r.copies)}
                        /\ IF r.ok
                           THEN /\ all_libraries' = Append(all_libraries,
                                      [platform |-> platform, libs |-> r.entries])
                                /\ advance
                                /\ crash_in' = crash_in
                           ELSE /\ pc' = "crashed"
                                /\ crash_in' = "copy_libraries"
                                /\ UNCHANGED <<idx, all_libraries>>
    /\ UNCHANGED <<env, temp, extracted_platforms, headers_from, umbrella, info>>

CreateInfoJson ==
    /\ pc = "info"
    /\ info' = [written |-> TRUE, artifacts |-> InfoJson(all_libraries)]
    /\ written' = written \cup {InfoFile}
    /\ pc' = "done"
    /\ UNCHANGED <<idx, env, temp, extracted_platforms, headers_from,
                   umbrella, all_libraries, copy_log, crash_in>>

Next ==
    \/ Fetch
    \/ ExitNoPlatforms
    \/ CreateModuleMap
    \/ CreateUmbrellaHeader
    \/ CopyLibraries
    \/ CreateInfoJson

Spec == Init /\ [][Next]_vars

----------------------------------------------------------------------------
(* Properties *)

Staged == Range(extracted_platforms)

\* The platforms whose download_and_extract call has returned.
Fetched ==
    IF pc = "fetch" THEN {Catalog[i].name : i \in 1..(idx - 1)} ELSE PlatformNames

FailedPlatforms == Fetched \ Staged

ArtifactIndices == 1..Len(info.artifacts)

LibraryEntries(i) == Range(all_libraries[i].libs)

\* C1: a platform whose download or extraction failed takes no part in what
\* follows: the run goes on when another platform succeeded, no library of
\* a failed platform is copied, no variant refers to one, and the headers
\* are not copied from the staging directory of one.
C1_FailedPlatformsExcluded ==
    pc # "fetch" =>
        /\ (Staged # {} => pc # "exit1")
        /\ \A i \in 1..Len(copy_log) : copy_log[i].platform \notin FailedPlatforms
        /\ \A n \in ArtifactIndices :
             \A v \in Range(info.artifacts[n].variants) : v.platform \notin FailedPlatforms
        /\ headers_from \notin FailedPlatforms

\* C2: when no platform was staged the run ends in sys.exit(1), and nothing
\* of the bundle is written: no module map, no header, no library, no
\* info.json.
C2_NoPlatformsNoOutput ==
    (pc # "fetch" /\ Staged = {}) =>
        /\ pc \in {"check", "exit1"}
        /\ pc = "check" => (ENABLED ExitNoPlatforms /\ ~ENABLED CreateModuleMap)
        /\ written = {}
        /\ ~info.written
        /\ umbrella = "none"
        /\ copy_log = << >>

C2_Witness ==
    /\ pc = "exit1"
    /\ \E p \in PlatformNames : env.served[p].kind = "zip" /\ temp[p] # NoTree

\* The files the contract asks of an archive: each entry inside the
\* directory extract_path that is no directory marker, at its path below
\* that directory.
EntriesUnder(members, extract_path) ==
    {Parts(DropFirst(m, Len(extract_path) + 1)) :
        m \in {x \in Range(members) :
                  /\ StartsWith(x, extract_path \o <<"/">>)
                  /\ x[Len(x)] # "/"}}

\* C3: extracting a readable archive into an empty staging directory
\* succeeds and writes exactly the entries inside the extract path that are
\* no directory markers.
C3_ExtractsExactlyEntriesUnderPath ==
    \A p \in Fetched :
        (env.served[p].kind = "zip" /\ env.served[p].corrupt = 0 /\ env.temp[p] = NoTree) =>
            /\ p \in Staged
            /\ temp[p].files = EntriesUnder(env.served[p].members, ExtractPath(p))

\* The platforms of all_libraries that have an entry with this display name.
PlatformsWith(lib_name) ==
    {all_libraries[i].platform :
        i \in {k \in 1..Len(all_libraries) :
                  \E e \in LibraryEntries(k) : e.lib_name = lib_name}}

\* C4: the artifact keys of info.json are the distinct display names of all
\* library entries, in sorted order, and each artifact has exactly one
\* variant for each platform that has an entry of that name, in catalog
\* order, and none for any other platform.
C4_ManifestArtifacts ==
    info.written =>
        LET names == UNION {{e.lib_name : e \in LibraryEntries(i)} :
                               i \in 1..Len(all_libraries)}
        IN  /\ {info.artifacts[n].name : n \in ArtifactIndices} = names
            /\ \A m, n \in ArtifactIndices :
                 m < n => StrLess(info.artifacts[m].name, info.artifacts[n].name)
            /\ \A n \in ArtifactIndices :
                 LET vs == info.artifacts[n].variants
                 IN  /\ vs # << >>
                     /\ {vs[k].platform : k \in 1..Len(vs)} =
                            PlatformsWith(info.artifacts[n].name)
                     /\ \A j, k \in 1..Len(vs) :
                          j < k => CatalogIndex(vs[j].platform) < CatalogIndex(vs[k].platform)

C4_Witness ==
    /\ info.written
    /\ Len(info.artifacts) >= 2
    /\ \E n \in ArtifactIndices : Len(info.artifacts[n].variants) >= 2
    /\ \E n \in ArtifactIndices : Len(info.artifacts[n].variants) < Len(all_libraries)
    /\ \E i \in 1..Len(all_libraries) :
         \E j, k \in 1..Len(all_libraries[i].libs) :
            j # k /\ all_libraries[i].libs[j].lib_name = all_libraries[i].libs[k].lib_name

\* The spellings that lower-case to "skia".
SkiaSpellings ==
    {<<a, b, c, d>> : a \in {"s", "S"}, b \in {"k", "K"}, c \in {"i", "I"}, d \in {"a", "A"}}

\* C5: an entry is main exactly when its display name lower-cases to
\* "skia", and a variant carries staticLibraryMetadata exactly when its
\* artifact's name does.
C5_MainIffSkia ==
    /\ \A i \in 1..Len(all_libraries) :
         \A e \in LibraryEntries(i) : e.is_main <=> e.lib_name \in SkiaSpellings
    /\ \A n \in ArtifactIndices :
         \A v \in Range(info.artifacts[n].variants) :
            v.staticLibraryMetadata <=> info.artifacts[n].name \in SkiaSpellings

C5_Witness ==
    /\ info.written
    /\ \E n \in ArtifactIndices :
         /\ info.artifacts[n].name = <<"S","k","i","a">>
         /\ \E v \in Range(info.artifacts[n].variants) : v.staticLibraryMetadata
    /\ \E n \in ArtifactIndices :
         \E v \in Range(info.artifacts[n].variants) : ~v.staticLibraryMetadata

\* The extension copy_libraries searches a platform for.
LibExtension(platform) == IF IsWindows(platform) THEN <<".","l","i","b">> ELSE <<".","a">>

\* s without its last n characters
DropLast(s, n) == SubSeq(s, 1, Len(s) - n)

\* The copies of one platform, in order.
CopiesOf(platform) == SelectSeq(copy_log, LAMBDA c : c.platform = platform)

RECURSIVE PossibleLibraries(_)
PossibleLibraries(i) ==
    IF i > Len(extracted_platforms) THEN {<< >>}
    ELSE LET platform == extracted_platforms[i]
             tree     == temp[platform]
             rest     == PossibleLibraries(i + 1)
         IN  IF ~SourceDirExists(tree) THEN rest
             ELSE {<<[platform |-> platform,
                      libs |-> CopyPlatform(tree, platform, order, 0).entries]>> \o r :
                      order \in ScanOrders(LibFiles(tree, platform)), r \in rest}

\* C7: the manifest a run writes is the manifest of every run over the same
\* staged files, whatever order the file system enumerates them in.
C7_ManifestIndependentOfScanOrder ==
    info.written =>
        \A libraries \in PossibleLibraries(1) : InfoJson(libraries) = info.artifacts

\* C8: a copy that fails does not end the run: no run stops inside
\* copy_libraries.
C8_CopyFailureDoesNotAbort == crash_in # "copy_libraries"

\* C9: copy_libraries flags at most one entry of a platform as main, and
\* exactly one when a display name of the platform lower-cases to "skia".
C9_AtMostOneMainPerPlatform ==
    \A i \in 1..Len(all_libraries) :
        LET libs  == all_libraries[i].libs
            mains == {j \in 1..Len(libs) : libs[j].is_main}
        IN  Cardinality(mains) =
                IF \E j \in 1..Len(libs) : libs[j].lib_name \in SkiaSpellings THEN 1 ELSE 0

\* C10: when info.json is written the run is past every copy, and each
\* variant path is <platform>/<file name> of a staged platform and of a
\* file this run copied into that platform's directory of the bundle.
C10_ManifestPathsWereCopied ==
    info.written =>
        /\ pc = "done"
        /\ \A p \in Staged :
             SourceDirExists(temp[p]) =>
                /\ \E i \in 1..Len(all_libraries) : all_libraries[i].platform = p
                /\ \A f \in LibFiles(temp[p], p) :
                     Last(f) # <<"i","c","u","d","t","l",".","d","a","t">> =>
                        \E i \in 1..Len(copy_log) :
                            copy_log[i].platform = p /\ copy_log[i].source = f
        /\ \A n \in ArtifactIndices :
             \A v \in Range(info.artifacts[n].variants) :
                \E i \in 1..Len(copy_log) :
                    /\ copy_log[i].platform \in Staged
                    /\ v.path = copy_log[i].platform \o <<"/">> \o copy_log[i].target
                    /\ <<copy_log[i].platform, copy_log[i].target>> \in written

C10_Witness ==
    /\ info.written
    /\ \E n \in ArtifactIndices :
         /\ Len(info.artifacts[n].variants) >= 2
         /\ \E v \in Range(info.artifacts[n].variants) :
              v.path = <<"w","i","n","d","o","w","s","-","x","6","4","/","s","k","i","a",".","l","i","b">>
    /\ \E i \in 1..Len(copy_log) : Last(copy_log[i].source) = <<"l","i","b","s","k","i","a",".","l","i","b">>

====
